---- MODULE Spec2Model ----
\* Keyword dedupe pipeline (src/src/scripts/dedupeKeywords.ts): candidate
\* generation with neighbour capping, union-find clustering, and the run of
\* main() with its embedding and merge worker pools.
EXTENDS Integers, Sequences, FiniteSets, TLC

\* ---------------------------------------------------------------- bounds
\* Number of keyword rows the store holds and fetchKeywords returns.
MaxRows == 4
\* Longest pair list handed to groupPairs in the clustering specification.
MaxPairs == 3
\* Largest per-keyword neighbour cap tried in the candidate specification.
MaxCap == 2
\* Rows 1..MaxMissing may lack a vector when the run starts.
MaxMissing == 2
\* Ids the pair lists of the grouping specification range over.
MaxIds == 5
\* Longest vector given to cosineSimilarity.
MaxDim == 2

\* One worker per item, whatever the limit.
MinMutantIgnoresLimit(a, b) == b

Min(a, b) == IF a <= b THEN a ELSE b

Max(a, b) == IF a >= b THEN a ELSE b

\* clamp (lines 145-148), on finite numbers.
clamp(value, min, max) == Min(max, Max(min, value))

\* MAX_GROUP_SIZE (lines 59-62) from DEDUPE_CONFIG.maxGroupSize.
MAX_GROUP_SIZE(setting) == IF setting <= 0 THEN 0 ELSE clamp(setting, 2, 200)

\* Similarity levels a pair can score (the result of lines 283-296), low to high.
Scores == 0..2
\* Levels the clamped THRESHOLD can take.
Thresholds == {1, 2}

\* --------------------------------------------------------------- strings
\* A string is a sequence of one-character strings; null and undefined are
\* both NULL, so `x ?? null` is x.
NULL == <<"null">>
Space == {" ", "\n"}

RECURSIVE TrimStart(_)
TrimStart(s) ==
  IF s = <<>> THEN <<>>
  ELSE IF Head(s) \in Space THEN TrimStart(Tail(s)) ELSE s

RECURSIVE TrimEnd(_)
TrimEnd(s) ==
  IF s = <<>> THEN <<>>
  ELSE IF s[Len(s)] \in Space THEN TrimEnd(SubSeq(s, 1, Len(s) - 1)) ELSE s

\* String.prototype.trim
Trim(s) == TrimEnd(TrimStart(s))

\* JavaScript truthiness of a string | null | undefined
Truthy(s) == s # NULL /\ s # <<>>

\* value?.trim() || fallback
TrimOr(s, fallback) ==
  IF s # NULL /\ Trim(s) # <<>> THEN Trim(s) ELSE fallback

RECURSIVE Join(_, _)
Join(parts, sep) ==
  IF parts = <<>> THEN <<>>
  ELSE IF Len(parts) = 1 THEN parts[1]
  ELSE parts[1] \o sep \o Join(Tail(parts), sep)

NonBlank(s) == Truthy(s) /\ Trim(s) # <<>>

\* buildEmbedTextForKeyword: trimmed truthy parts joined by a blank line,
\* falling back to the raw keyword.
buildEmbedTextForKeyword(keyword, description) ==
  LET parts == SelectSeq(<<keyword, description>>, Truthy)
      trimmed == [i \in 1..Len(parts) |-> Trim(parts[i])]
      combined == Join(SelectSeq(trimmed, Truthy), <<"\n", "\n">>)
  IN IF combined # <<>> THEN combined ELSE keyword

\* ------------------------------------------------------- candidate pairs
\* The unordered pairs (i, j), i < j, in the order the nested loops visit them.
RECURSIVE ScanFrom(_, _, _)
ScanFrom(n, i, j) ==
  IF i >= n THEN <<>>
  ELSE IF j > n THEN ScanFrom(n, i + 1, i + 2)
  ELSE <<[a |-> i, b |-> j]>> \o ScanFrom(n, i, j + 1)

ScanOrder(n) == ScanFrom(n, 1, 2)

\* Lines 279-301: the pairs whose score reaches the threshold, in scan order.
allCandidates(n, score, threshold) ==
  LET Qualifies(p) == score[<<p.a, p.b>>] >= threshold
      kept == SelectSeq(ScanOrder(n), Qualifies)
  IN [k \in 1..Len(kept) |->
        [a |-> kept[k].a, b |-> kept[k].b, score |-> score[<<kept[k].a, kept[k].b>>]]]

\* Array.prototype.sort((x, y) => y.score - x.score): stable, descending.
RECURSIVE InsertDesc(_, _)
InsertDesc(sorted, p) ==
  IF sorted = <<>> THEN <<p>>
  ELSE IF Head(sorted).score >= p.score
       THEN <<Head(sorted)>> \o InsertDesc(Tail(sorted), p)
       ELSE <<p>> \o sorted

\* The comparator reversed: (x, y) => x.score - y.score.
RECURSIVE SortMutantAscending(_)
SortMutantAscending(ps) ==
  IF ps = <<>> THEN <<>>
  ELSE LET m == CHOOSE k \in 1..Len(ps) :
                  \A j \in 1..Len(ps) :
                    \/ ps[k].score < ps[j].score
                    \/ ps[k].score = ps[j].score /\ k <= j
       IN <<ps[m]>> \o SortMutantAscending(SubSeq(ps, 1, m - 1)
                                             \o SubSeq(ps, m + 1, Len(ps)))

RECURSIVE sortByScore(_)
sortByScore(ps) ==
  IF ps = <<>> THEN <<>>
  ELSE InsertDesc(sortByScore(SubSeq(ps, 1, Len(ps) - 1)), ps[Len(ps)])

Count(counts, id) == IF id \in DOMAIN counts THEN counts[id] ELSE 0

Put(f, k, v) == [x \in DOMAIN f \cup {k} |-> IF x = k THEN v ELSE f[x]]

\* Line 324: a pair is dropped when either endpoint already has `limit` pairs.
CapMutantBothFull(cA, cB, limit) == cA >= limit /\ cB >= limit

\* Line 324 with > for >=.
CapMutantOffByOne(cA, cB, limit) == cA > limit \/ cB > limit

CapReached(cA, cB, limit) == cA >= limit \/ cB >= limit

\* Lines 319-328: the greedy forEach over the sorted candidates.
RECURSIVE capNeighbors(_, _, _, _)
capNeighbors(ps, limit, counts, filtered) ==
  IF ps = <<>> THEN filtered
  ELSE LET p == Head(ps)
           cA == Count(counts, p.a)
           cB == Count(counts, p.b)
       IN IF CapReached(cA, cB, limit)
          THEN capNeighbors(Tail(ps), limit, counts, filtered)
          ELSE capNeighbors(Tail(ps), limit,
                            Put(Put(counts, p.a, cA + 1), p.b, cB + 1),
                            Append(filtered, p))

\* buildPairs after the embedding workers have finished (lines 275-336).
buildPairs(n, score, threshold, maxNeighbors) ==
  LET sorted == sortByScore(allCandidates(n, score, threshold))
  IN IF maxNeighbors > 0
     THEN sortByScore(capNeighbors(sorted, maxNeighbors, <<>>, <<>>))
     ELSE sorted

\* ------------------------------------------------------------ union-find
\* find(x) with path compression: the root and the parent map afterwards.
RECURSIVE find(_, _)
find(parent, x) ==
  IF x \notin DOMAIN parent \/ parent[x] = x
  THEN [root |-> x, parent |-> parent]
  ELSE LET r == find(parent, parent[x])
       IN [root |-> r.root, parent |-> Put(r.parent, x, r.root)]

\* Line 351 as parent.set(b, pa): b itself, not its root, goes under pa.
UnionMutantMovesMember(parent, a, b) ==
  LET fa == find(parent, a)
      fb == find(fa.parent, b)
  IN IF fa.root # fb.root THEN Put(fb.parent, b, fa.root) ELSE fb.parent

\* union(a, b): the second root goes under the first.
union(parent, a, b) ==
  LET fa == find(parent, a)
      fb == find(fa.parent, b)
  IN IF fa.root # fb.root THEN Put(fb.parent, fb.root, fa.root) ELSE fb.parent

\* Lines 354-356.
RECURSIVE unionAll(_, _)
unionAll(parent, ps) ==
  IF ps = <<>> THEN parent
  ELSE unionAll(union(parent, Head(ps).a, Head(ps).b), Tail(ps))

Has(g, id) == \E k \in 1..Len(g) : g[k] = id

\* Lines 362-363 without the `some` test: members pushed unconditionally.
PushMutantNoCheck(g, id) == Append(g, id)

\* if (!groups[root].some((k) => k.id === id)) groups[root].push(row)
PushUnique(g, id) == IF Has(g, id) THEN g ELSE Append(g, id)

\* Lines 358-364: members collected under the root of each pair's first id.
RECURSIVE collect(_, _, _)
collect(parent, ps, acc) ==
  IF ps = <<>> THEN acc
  ELSE LET f == find(parent, Head(ps).a)
           g0 == IF f.root \in DOMAIN acc THEN acc[f.root] ELSE <<>>
           g1 == PushUnique(PushUnique(g0, Head(ps).a), Head(ps).b)
       IN collect(f.parent, Tail(ps), Put(acc, f.root, g1))

RECURSIVE InsertAsc(_, _)
InsertAsc(sorted, id) ==
  IF sorted = <<>> THEN <<id>>
  ELSE IF Head(sorted) <= id THEN <<Head(sorted)>> \o InsertAsc(Tail(sorted), id)
  ELSE <<id>> \o sorted

RECURSIVE SortAsc(_)
SortAsc(g) ==
  IF g = <<>> THEN <<>>
  ELSE InsertAsc(SortAsc(SubSeq(g, 1, Len(g) - 1)), g[Len(g)])

\* Line 366 without the sort: members stay in insertion order.
SortMutantInsertionOrder(g) == g

\* g.sort((x, y) => x.id - y.id)
sortMembers(g) == SortAsc(g)

\* Object.values of an object with integer keys: ascending key order.
RECURSIVE ValuesFrom(_, _)
ValuesFrom(obj, keys) ==
  IF keys = {} THEN <<>>
  ELSE LET k == CHOOSE x \in keys : \A y \in keys : x <= y
       IN <<obj[k]>> \o ValuesFrom(obj, keys \ {k})

\* Object.values walking the keys from the largest down.
RECURSIVE ObjectValuesMutantDescending(_)
ObjectValuesMutantDescending(obj) ==
  IF DOMAIN obj = {} THEN <<>>
  ELSE LET k == CHOOSE x \in DOMAIN obj : \A y \in DOMAIN obj : x >= y
       IN <<obj[k]>> \o ObjectValuesMutantDescending(
                          [x \in DOMAIN obj \ {k} |-> obj[x]])

ObjectValues(obj) == ValuesFrom(obj, DOMAIN obj)

\* A cluster over the cap cut down to its first members.
groupPairsMutantTruncates(ps, maxGroupSize) ==
  LET parent == unionAll(<<>>, ps)
      groups == collect(parent, ps, <<>>)
      vals == ObjectValues(groups)
      result == [k \in 1..Len(vals) |->
                   LET g == sortMembers(vals[k])
                   IN IF maxGroupSize > 0 /\ Len(g) > maxGroupSize
                      THEN SubSeq(g, 1, maxGroupSize) ELSE g]
      Sized(g) == Len(g) >= 2
  IN SelectSeq(result, Sized)

\* groupPairs (lines 339-371); maxGroupSize is MAX_GROUP_SIZE, 0 = no cap.
groupPairs(ps, maxGroupSize) ==
  LET parent == unionAll(<<>>, ps)
      groups == collect(parent, ps, <<>>)
      vals == ObjectValues(groups)
      result == [k \in 1..Len(vals) |-> sortMembers(vals[k])]
      Sized(g) == Len(g) >= 2 /\ (maxGroupSize > 0 => Len(g) <= maxGroupSize)
  IN SelectSeq(result, Sized)


\* ------------------------------------------------------------- run state
VARIABLES
  config,     \* DEDUPE_CONFIG as edited for this run
  switches,   \* what the operator passed: env switches set to "1" / argv flags
  store,      \* the keyword table: id -> row
  rows,       \* what fetchKeywords returned (main's `rows`)
  mainPc,     \* where main() is
  exitCause,  \* why main().catch ran, "none" otherwise
  cursor,     \* the shared cursor of the pool that is running
  embedW,     \* embedding workers of buildPairs
  embedded,   \* ids with an entry in textEmbeddings / nameEmbeddings
  embedLog,   \* per row of the running embedding phase: the vectors it
              \* lacked when fetched, and what ensureEmbeddings did for it
  poolLimit,  \* the concurrency setting the running pool was created with
  pairs,      \* main's `pairs`
  groups,     \* main's `groups`
  mergeW,     \* merge workers of main
  fnPc, fnIn, fnOut, \* a direct call of buildPairs / groupPairs
  \* syncNewsFromLinks.ts
  syncPc,              \* where its main() is
  linkTable,           \* ids of the rows of the link table
  news,                \* the news table: id -> "none", "saved" or "embedded"
  crawlQueue,          \* main's `crawlQueue`
  embedQueue,          \* main's `embedQueue`
  activeCrawlWorkers,  \* main's `activeCrawlWorkers`
  crawlWorkers,        \* the crawlWorker() calls of line 344, each at its await
  embedWorkers,        \* the embedWorker() calls of line 348, each at its await
  linkLog              \* per target link: calls of extractArticleFromUrl, embed
                       \* tasks taken, and what became of a 404

vars == <<config, switches, store, rows, mainPc, exitCause, cursor, embedW,
          embedded, embedLog, poolLimit, pairs, groups, mergeW, fnPc, fnIn,
          fnOut, syncPc, linkTable, news, crawlQueue, embedQueue,
          activeCrawlWorkers, crawlWorkers, embedWorkers, linkLog>>

runVars == <<config, switches, store, rows, mainPc, exitCause, cursor, embedW,
             embedded, embedLog, poolLimit, pairs, groups, mergeW>>

fnVars == <<fnPc, fnIn, fnOut>>

syncVars == <<syncPc, linkTable, news, crawlQueue, embedQueue,
              activeCrawlWorkers, crawlWorkers, embedWorkers, linkLog>>

\* syncNewsFromLinks.ts is not running.
SyncIdle ==
  /\ syncPc = "off"
  /\ linkTable = {}
  /\ news = <<>>
  /\ crawlQueue = <<>>
  /\ embedQueue = <<>>
  /\ activeCrawlWorkers = 0
  /\ crawlWorkers = <<>>
  /\ embedWorkers = <<>>
  /\ linkLog = <<>>

\* -------------------------------------------------------------- inputs
\* The shipped tunables (lines 19-43), and the edits of them a run is tried
\* with; a tunable is "true", "false" or "undefined" (left to the switches).
Shipped ==
  [apply |-> "true", deleteSecondaries |-> "true", aggressiveDelete |-> TRUE,
   useNameEmbeddingOnly |-> FALSE, switches |-> {}]

ConfigCases ==
  {[Shipped EXCEPT !.apply = a, !.switches = sw] :
     a \in {"true", "false", "undefined"}, sw \in SUBSET {"apply"}}
  \cup {[Shipped EXCEPT !.aggressiveDelete = FALSE, !.deleteSecondaries = "false"],
        [Shipped EXCEPT !.aggressiveDelete = FALSE, !.deleteSecondaries = "undefined",
                        !.switches = {"delete"}],
        [Shipped EXCEPT !.deleteSecondaries = "false"],
        [Shipped EXCEPT !.useNameEmbeddingOnly = TRUE]}

\* The keyword and description columns the table holds when the run starts.
RowKeyword(id) ==
  CASE id % 3 = 1 -> <<" ", "a">>
    [] id % 3 = 2 -> <<" ">>
    [] OTHER -> <<"c">>

RowDescription(id) ==
  CASE id % 4 = 1 -> NULL
    [] id % 4 = 2 -> <<"x">>
    [] id % 4 = 3 -> <<" ">>
    [] OTHER -> <<"y">>

\* What an LLM decision can carry.
DecisionKeywords == {NULL, <<" ", "a">>, <<"c">>}
DecisionDescriptions == {NULL, <<"y">>}
Decisions ==
  {[action |-> "skip", keyword |-> NULL, description |-> NULL]}
  \cup [action : {"rename", "merge"}, keyword : DecisionKeywords,
        description : DecisionDescriptions]

\* Scores the run's similarity loop can produce, and its tunables.
RunScores == {0, 1}
RunThreshold == 1
RunCaps == {0, 1}
EmbedConcurrencies == {1, 2}
MergeConcurrencies == {1, 60}
\* Values of DEDUPE_CONFIG.maxGroupSize (line 23).
GroupSizeCaps == 0..3

\* ------------------------------------------------------------ constants
\* Lines 46-49.
APPLY ==
  IF config.apply \in {"true", "false"}
  THEN config.apply = "true"
  ELSE "apply" \in switches

\* Lines 50-53.
DELETE_SECONDARIES ==
  IF config.deleteSecondaries \in {"true", "false"}
  THEN config.deleteSecondaries = "true"
  ELSE "delete" \in switches

\* Line 65.
SHOULD_EMBED_TEXT == ~config.useNameEmbeddingOnly

\* Line 404.
AggressiveMode == config.aggressiveDelete /\ DELETE_SECONDARIES


\* ----------------------------------------------------- embedding workers
Idle == [pc |-> "done", idx |-> 0, payload |-> {}]

\* The vectors a fetched row lacks (coerceEmbedding gives null, lines 192-193).
MissingKinds(st, id) ==
  {kind \in {"embedding", "name_embedding"} : st[id][kind] = "none"}

\* Nothing done yet for the rows just fetched.
FreshLog(st, rs) ==
  [id \in {rs[k].id : k \in DOMAIN rs} |->
     [missing |-> MissingKinds(st, id), handled |-> 0,
      computed |-> <<>>, saves |-> <<>>]]

\* ensureEmbeddings was entered for the row.
Logged(log, id, what) == [log EXCEPT ![id][what] = @ + 1]

\* embedTextFn returned the vector of this kind for the row.
Computed(log, id, kind) == [log EXCEPT ![id].computed = Append(@, kind)]

\* The update of lines 215-218 was issued with this payload.
SaveIssued(log, id, payload) == [log EXCEPT ![id].saves = Append(@, payload)]

\* ensureEmbeddings up to its first await for a row that lacks a vector
\* (lines 192-212), or "skip" when the row has every vector it needs.
FirstEmbedStep(st, row) ==
  IF SHOULD_EMBED_TEXT /\ st[row.id].embedding = "none"
  THEN IF Trim(buildEmbedTextForKeyword(row.keyword, row.description)) = <<>>
       THEN "throw" ELSE "embedText"
  ELSE IF st[row.id].name_embedding = "none"
       THEN IF TrimOr(row.keyword, <<>>) = <<>> THEN "throw" ELSE "embedName"
       ELSE "skip"

\* The worker loop of lines 258-269 from `const idx = cursor++` to its next
\* await: rows that need nothing are recorded and the loop goes on.
RECURSIVE EmbedTake(_, _, _, _, _)
EmbedTake(rs, st, c, done, log) ==
  IF c + 1 > Len(rs)
  THEN [w |-> Idle, cursor |-> c + 1, embedded |-> done, log |-> log]
  ELSE LET row == rs[c + 1]
           step == FirstEmbedStep(st, row)
           entered == Logged(log, row.id, "handled")
       IN IF step = "skip"
          THEN EmbedTake(rs, st, c + 1, done \cup {row.id}, entered)
          ELSE [w |-> [pc |-> step, idx |-> c + 1, payload |-> {}],
                cursor |-> c + 1, embedded |-> done, log |-> entered]

\* Array.from({length}, async () => ...): each worker runs to its first await.
RECURSIVE StartEmbedWorkers(_, _, _, _)
StartEmbedWorkers(k, rs, st, acc) ==
  IF k = 0 THEN acc
  ELSE LET t == EmbedTake(rs, st, acc.cursor, acc.embedded, acc.log)
       IN StartEmbedWorkers(k - 1, rs, st,
            [ws |-> Append(acc.ws, t.w), cursor |-> t.cursor,
             embedded |-> t.embedded, log |-> t.log])

Threw(ws) == \E k \in 1..Len(ws) : ws[k].pc = "throw"

\* Promise.race in place of Promise.all: the first finished worker is enough.
AllDoneMutantAnyDone(ws) == \E k \in 1..Len(ws) : ws[k].pc = "done"

AllDone(ws) == \A k \in 1..Len(ws) : ws[k].pc = "done"

\* A rejected worker rejects Promise.all, buildPairs and main: main().catch
\* logs and calls process.exit(1) (lines 273, 516, 579-582).
Abort(cause) ==
  /\ mainPc' = "failed"
  /\ exitCause' = cause

\* fetchKeywords fails (lines 180-182): main rejects.
FetchError ==
  /\ mainPc = "start"
  /\ Abort("fetch")
  /\ UNCHANGED <<config, switches, store, rows, cursor, embedW, embedded, embedLog,
                 pairs, groups, mergeW,
                 poolLimit>>
  /\ UNCHANGED <<fnVars, syncVars>>

FetchedRows ==
  LET ids == {id \in DOMAIN store : store[id].exists}
  IN [k \in 1..Cardinality(ids) |->
        [id |-> k, keyword |-> store[k].keyword,
         description |-> store[k].description]]

\* Lines 510-514: no rows, main returns.
FetchEmpty ==
  /\ mainPc = "start"
  /\ FetchedRows = <<>>
  /\ mainPc' = "done"
  /\ UNCHANGED <<config, switches, store, rows, exitCause, cursor, embedW,
                 embedded, embedLog, pairs, groups, mergeW,
                 poolLimit>>
  /\ UNCHANGED <<fnVars, syncVars>>

\* Lines 510-271: rows fetched, the embedding workers start.
FetchAndStartEmbedding ==
  /\ mainPc = "start"
  /\ FetchedRows # <<>>
  /\ \E conc \in EmbedConcurrencies :
       LET rs == FetchedRows
           started == StartEmbedWorkers(Min(conc, Len(rs)), rs, store,
                        [ws |-> <<>>, cursor |-> 0, embedded |-> {},
                         log |-> FreshLog(store, rs)])
       IN /\ rows' = rs
          /\ embedW' = started.ws
          /\ cursor' = started.cursor
          /\ embedded' = started.embedded
          /\ embedLog' = started.log
          /\ poolLimit' = conc
          /\ IF Threw(started.ws)
             THEN Abort("embed")
             ELSE mainPc' = "embedding" /\ exitCause' = exitCause
  /\ UNCHANGED <<config, switches, store, pairs, groups, mergeW>>
  /\ UNCHANGED <<fnVars, syncVars>>

EmbedAbort ==
  /\ Abort("embed")
  /\ UNCHANGED <<config, switches, store, rows, cursor, embedW, embedded, embedLog,
                 pairs, groups, mergeW,
                 poolLimit>>

\* embedTextFn(text) settles (line 201).
EmbedTextDone(w) ==
  /\ mainPc = "embedding"
  /\ embedW[w].pc = "embedText"
  /\ \/ EmbedAbort
     \/ LET row == rows[embedW[w].idx]
            next == IF store[row.id].name_embedding = "none"
                    THEN IF TrimOr(row.keyword, <<>>) = <<>>
                         THEN "throw" ELSE "embedName"
                    ELSE "update"
            got == Computed(embedLog, row.id, "embedding")
        IN IF next = "throw"
           THEN /\ Abort("embed")
                /\ embedLog' = got
                /\ UNCHANGED <<config, switches, store, rows, cursor, embedW,
                               embedded, pairs, groups, mergeW,
                 poolLimit>>
           ELSE /\ embedW' = [embedW EXCEPT ![w].pc = next,
                                            ![w].payload = {"embedding"}]
                /\ embedLog' = IF next = "update"
                               THEN SaveIssued(got, row.id, {"embedding"})
                               ELSE got
                /\ UNCHANGED <<config, switches, store, rows, mainPc, exitCause,
                               cursor, embedded, pairs, groups, mergeW,
                 poolLimit>>
  /\ UNCHANGED <<fnVars, syncVars>>

\* embedTextFn(nameText) settles (line 210).
EmbedNameDone(w) ==
  /\ mainPc = "embedding"
  /\ embedW[w].pc = "embedName"
  /\ \/ EmbedAbort
     \/ LET id == rows[embedW[w].idx].id
            payload == embedW[w].payload \cup {"name_embedding"}
        IN /\ embedW' = [embedW EXCEPT ![w].pc = "update", ![w].payload = payload]
           /\ embedLog' = SaveIssued(Computed(embedLog, id, "name_embedding"),
                                     id, payload)
           /\ UNCHANGED <<config, switches, store, rows, mainPc, exitCause,
                          cursor, embedded, pairs, groups, mergeW,
                 poolLimit>>
  /\ UNCHANGED <<fnVars, syncVars>>

SavePayload(st, id, payload) ==
  [st EXCEPT ![id].embedding =
                IF "embedding" \in payload THEN "vec" ELSE @,
             ![id].name_embedding =
                IF "name_embedding" \in payload THEN "vec" ELSE @]

\* The update of lines 214-220 settles; the worker records the vectors and
\* takes its next row.
EmbedSaveDone(w) ==
  /\ mainPc = "embedding"
  /\ embedW[w].pc = "update"
  /\ \/ EmbedAbort
     \/ LET row == rows[embedW[w].idx]
            st == SavePayload(store, row.id, embedW[w].payload)
            t == EmbedTake(rows, st, cursor, embedded \cup {row.id}, embedLog)
        IN /\ store' = st
           /\ embedW' = [embedW EXCEPT ![w] = t.w]
           /\ cursor' = t.cursor
           /\ embedded' = t.embedded
           /\ embedLog' = t.log
           /\ IF t.w.pc = "throw"
              THEN Abort("embed")
              ELSE UNCHANGED <<mainPc, exitCause>>
           /\ UNCHANGED <<config, switches, rows, pairs, groups, mergeW,
                 poolLimit>>
  /\ UNCHANGED <<fnVars, syncVars>>


\* ------------------------------------------------ candidates and clusters
PairIndex(n) == {<<i, j>> \in (1..n) \X (1..n) : i < j}

\* Promise.all(embedWorkers) resolved: the similarity loop, the sort and the
\* neighbour cap run (lines 273-336), and main looks at the result (517-529).
ComputePairs ==
  /\ mainPc = "embedding"
  /\ AllDone(embedW)
  /\ \E score \in {f \in [PairIndex(Len(rows)) -> RunScores] :
                      \A ij \in PairIndex(Len(rows)) :
                        ({ij[1], ij[2]} \subseteq embedded) \/ f[ij] = 0},
        cap \in RunCaps :
       pairs' = buildPairs(Len(rows), score, RunThreshold, cap)
  /\ mainPc' = IF pairs' = <<>> THEN "done" ELSE "grouping"
  /\ embedLog' = <<>>
  /\ UNCHANGED <<config, switches, store, rows, exitCause, cursor, embedW,
                 embedded, groups, mergeW,
                 poolLimit>>
  /\ UNCHANGED <<fnVars, syncVars>>

\* ---------------------------------------------------------- merge workers
NoCall == [keyword |-> NULL, description |-> NULL]

Resting == [pc |-> "done", g |-> 0, s |-> 0,
            primary |-> NoCall, primaryKeyword |-> NULL,
            primaryDescription |-> NULL, call |-> NoCall,
            op |-> "none", proposed |-> NULL, keyword |-> NULL,
            description |-> NULL, caught |-> FALSE,
            proposedDescription |-> NULL]

\* The loop of line 422 stepping over every other member.
NextSecondaryMutantSkipsOne(gs, w, s) ==
  IF s + 1 <= Len(gs[w.g])
  THEN [w EXCEPT !.pc = "decide", !.s = s + 1, !.call = w.primary,
                 !.op = "none", !.proposed = NULL, !.keyword = NULL,
                 !.description = NULL, !.caught = FALSE,
                 !.proposedDescription = NULL]
  ELSE [Resting EXCEPT !.pc = "returned"]

\* Lines 422-425: the loop reaches secondary s of the group, or ends.
NextSecondary(gs, w, s) ==
  IF s <= Len(gs[w.g])
  THEN [w EXCEPT !.pc = "decide", !.s = s, !.call = w.primary,
                 !.op = "none", !.proposed = NULL, !.keyword = NULL,
                 !.description = NULL, !.caught = FALSE,
                 !.proposedDescription = NULL]
  ELSE [Resting EXCEPT !.pc = "returned"]

\* applyMerge up to its first await (lines 399-425).
applyMergeStart(gs, rs, g, aggressive) ==
  LET primary == rs[gs[g][1]]
      w0 == [Resting EXCEPT !.g = g,
               !.primary = [keyword |-> primary.keyword,
                            description |-> primary.description],
               !.primaryKeyword = primary.keyword,
               !.primaryDescription = primary.description]
  IN IF aggressive
     THEN IF Len(gs[g]) > 1
          THEN [w0 EXCEPT !.pc = "aggressiveDelete"]
          ELSE [Resting EXCEPT !.pc = "returned"]
     ELSE NextSecondary(gs, w0, 2)

\* The worker loop of lines 566-571 from `const idx = cursor++` to the await
\* inside applyMerge.
\* `cursor++` of line 567 without the increment.
MergeTakeMutantNoIncrement(gs, rs, c, aggressive) ==
  IF c + 1 > Len(gs)
  THEN [w |-> Resting, cursor |-> c + 1]
  ELSE [w |-> applyMergeStart(gs, rs, c + 1, aggressive), cursor |-> c]

MergeTake(gs, rs, c, aggressive) ==
  IF c + 1 > Len(gs)
  THEN [w |-> Resting, cursor |-> c + 1]
  ELSE [w |-> applyMergeStart(gs, rs, c + 1, aggressive), cursor |-> c + 1]

RECURSIVE StartMergeWorkers(_, _, _, _, _)
StartMergeWorkers(k, gs, rs, aggressive, acc) ==
  IF k = 0 THEN acc
  ELSE LET t == MergeTake(gs, rs, acc.cursor, aggressive)
       IN StartMergeWorkers(k - 1, gs, rs, aggressive,
            [ws |-> Append(acc.ws, t.w), cursor |-> t.cursor])

\* groupPairs, the report, the dry-run return and the start of the merge
\* workers (lines 538-573). `pairs` is not read after line 538.
GroupAndDispatch ==
  /\ mainPc = "grouping"
  /\ \E size \in GroupSizeCaps, conc \in MergeConcurrencies :
       LET gs == groupPairs(pairs, MAX_GROUP_SIZE(size))
           started == StartMergeWorkers(Min(conc, Len(gs)), gs, rows,
                        AggressiveMode, [ws |-> <<>>, cursor |-> 0])
       IN /\ groups' = gs
          /\ IF gs = <<>> \/ ~APPLY
             THEN /\ mainPc' = "done"
                  /\ UNCHANGED <<cursor, mergeW, poolLimit>>
             ELSE /\ mainPc' = "merging"
                  /\ cursor' = started.cursor
                  /\ mergeW' = started.ws
                  /\ poolLimit' = conc
  /\ pairs' = <<>>
  /\ UNCHANGED <<config, switches, store, rows, exitCause, embedW, embedded,
                 embedLog>>
  /\ UNCHANGED <<fnVars, syncVars>>

MergeAbort(cause) ==
  /\ Abort(cause)
  /\ UNCHANGED <<config, switches, store, rows, cursor, embedW, embedded, embedLog,
                 pairs, groups, mergeW,
                 poolLimit>>

\* `await applyMerge(client, group)` resumes: the worker takes its next group.
AfterReturn(w) ==
  IF w.pc = "returned"
  THEN MergeTake(groups, rows, cursor, AggressiveMode)
  ELSE [w |-> w, cursor |-> cursor]

\* The worker moves on from its current await to `w`.
Resume(k, w, st) ==
  LET t == AfterReturn(w)
  IN /\ mergeW' = [mergeW EXCEPT ![k] = t.w]
     /\ cursor' = t.cursor
     /\ store' = st
     /\ UNCHANGED <<config, switches, rows, mainPc, exitCause, embedW,
                    embedded, embedLog, pairs, groups,
                 poolLimit>>

\* The whole group deleted, its head included.
VictimsMutantWholeGroup(g) == {g[k] : k \in 1..Len(g)}

Victims(g) == {g[k] : k \in 2..Len(g)}

\* The delete of lines 409-412 settles.
AggressiveDeleteDone(k) ==
  /\ mainPc = "merging"
  /\ mergeW[k].pc = "aggressiveDelete"
  /\ \/ MergeAbort("aggressiveDelete")
     \/ Resume(k, [Resting EXCEPT !.pc = "returned"],
               [id \in DOMAIN store |->
                  IF id \in Victims(groups[mergeW[k].g])
                  THEN [store[id] EXCEPT !.exists = FALSE] ELSE store[id]])
  /\ UNCHANGED <<fnVars, syncVars>>

\* Lines 447: the rename proposes nothing new.
RenameNoChange(newKeyword, current, primaryKeyword) ==
  newKeyword = current \/ newKeyword = primaryKeyword

\* Line 462 with the secondary's name as the fallback.
MergedKeywordMutantSecondary(d, w) ==
  TrimOr(d.keyword, rows[groups[w.g][w.s]].keyword)

\* Lines 462-469.
MergedKeyword(d, w) == TrimOr(d.keyword, w.primaryKeyword)

MergedDescription(d, w, secondary) ==
  LET own == TrimOr(d.description, <<>>)
      both == Trim(Join(SelectSeq(<<w.primaryDescription, secondary.description>>,
                                  NonBlank), <<"\n">>))
  IN IF own # <<>> THEN own ELSE IF both # <<>> THEN both ELSE NULL

\* Lines 435-471: what the loop body does with a decision, up to its next await.
Decided(gs, rs, w, d) ==
  LET secondary == rs[gs[w.g][w.s]]
      newKeyword == TrimOr(d.keyword, <<>>)
      current == TrimOr(secondary.keyword, <<>>)
  IN CASE d.action = "skip" -> NextSecondary(gs, w, w.s + 1)
       [] d.action = "rename" ->
            IF newKeyword = <<>>
               \/ RenameNoChange(newKeyword, current, w.primaryKeyword)
            THEN NextSecondary(gs, w, w.s + 1)
            ELSE [w EXCEPT !.pc = "regenText", !.op = "rename",
                    !.caught = FALSE, !.proposed = d.keyword,
                    !.proposedDescription = d.description, !.keyword = newKeyword,
                    !.description =
                       IF TrimOr(d.description, <<>>) # <<>>
                       THEN TrimOr(d.description, <<>>)
                       ELSE IF Truthy(secondary.description)
                            THEN secondary.description ELSE NULL]
       [] OTHER ->
            [w EXCEPT !.pc = "regenText", !.op = "merge",
               !.caught = FALSE, !.proposed = d.keyword,
               !.proposedDescription = d.description, !.keyword = MergedKeyword(d, w),
               !.description = MergedDescription(d, w, secondary)]

\* The catch block of lines 426-433 ran, and the loop is at its next await.
Caught(w) == IF w.pc = "decide" THEN [w EXCEPT !.caught = TRUE] ELSE w

\* Escape of the rejection from applyMerge instead of lines 426-433.
DecisionFailedMutantThrows(k) == MergeAbort("decide")

\* decideWithLlm rejects: the request fails, the status is not ok, the
\* content is empty, or the content is not a merge / rename / skip object
\* (lines 99-142). Lines 426-433 log it and `continue`.
DecisionFailed(k) ==
  Resume(k, Caught(NextSecondary(groups, mergeW[k], mergeW[k].s + 1)), store)

\* decideWithLlm settles (lines 424-433): a decision, or a failure that is
\* logged and skips the secondary.
DecideDone(k) ==
  /\ mainPc = "merging"
  /\ mergeW[k].pc = "decide"
  /\ \/ DecisionFailed(k)
     \/ \E d \in Decisions : Resume(k, Decided(groups, rows, mergeW[k], d), store)
  /\ UNCHANGED <<fnVars, syncVars>>

\* updateKeyword: embedTextFn(text) settles (lines 387-388). embedText
\* rejects a blank text (newsVectors.ts line 50).
RegenTextDone(k) ==
  /\ mainPc = "merging"
  /\ mergeW[k].pc = "regenText"
  /\ \/ MergeAbort("mergeRegen")
     \/ /\ Trim(buildEmbedTextForKeyword(mergeW[k].keyword,
                                         mergeW[k].description)) # <<>>
        /\ Resume(k, [mergeW[k] EXCEPT !.pc = "regenName"], store)
  /\ UNCHANGED <<fnVars, syncVars>>

\* The name and description stored as soon as the vectors are computed, the
\* vectors in a second update.
RegenNameDoneMutantWritesEarly(k) ==
  /\ mainPc = "merging"
  /\ mergeW[k].pc = "regenName"
  /\ \/ MergeAbort("mergeRegen")
     \/ /\ Trim(mergeW[k].keyword) # <<>>
        /\ Resume(k, [mergeW[k] EXCEPT !.pc = "update"],
                  [store EXCEPT ![groups[mergeW[k].g][IF mergeW[k].op = "rename"
                                                      THEN mergeW[k].s ELSE 1]] =
                     [@ EXCEPT !.keyword = mergeW[k].keyword,
                               !.description = mergeW[k].description]])
  /\ UNCHANGED <<fnVars, syncVars>>

\* updateKeyword: embedTextFn(keyword) settles (line 389).
RegenNameDone(k) ==
  /\ mainPc = "merging"
  /\ mergeW[k].pc = "regenName"
  /\ \/ MergeAbort("mergeRegen")
     \/ /\ Trim(mergeW[k].keyword) # <<>>
        /\ Resume(k, [mergeW[k] EXCEPT !.pc = "update"], store)
  /\ UNCHANGED <<fnVars, syncVars>>

\* Lines 489-492 skipped: the snapshot keeps the values it had.
RefreshMutantStale(w) == w

\* Lines 489-492: refresh primary snapshot for next iterations.
RefreshPrimary(w) ==
  [w EXCEPT !.primaryKeyword = w.keyword,
            !.primaryDescription = w.description,
            !.primary = [keyword |-> w.keyword, description |-> w.description]]

\* The rename addressed by the position in the group instead of the row id.
TargetMutantIndexAsId(gs, w) == IF w.op = "rename" THEN w.s ELSE gs[w.g][1]

\* updateKeyword always given the primary's row.
TargetMutantAlwaysPrimary(gs, w) == gs[w.g][1]

\* The id updateKeyword writes: the secondary on rename, the primary on merge.
Target(gs, w) == IF w.op = "rename" THEN gs[w.g][w.s] ELSE gs[w.g][1]

\* The error of the store update ignored (no lines 394-396): the loop goes on
\* as after a successful update, the row not written.
UpdateDoneMutantIgnoresError(k) ==
  /\ mainPc = "merging"
  /\ mergeW[k].pc = "update"
  /\ LET w == mergeW[k]
     IN \E st \in {store,
                   [store EXCEPT ![Target(groups, w)] =
                      [@ EXCEPT !.keyword = w.keyword,
                                !.description = w.description,
                                !.embedding = "vec",
                                !.name_embedding = "vec"]]} :
          IF w.op = "rename"
          THEN Resume(k, NextSecondary(groups, w, w.s + 1), st)
          ELSE IF DELETE_SECONDARIES
               THEN Resume(k, [w EXCEPT !.pc = "delete"], st)
               ELSE Resume(k, NextSecondary(groups, RefreshPrimary(w), w.s + 1), st)
  /\ UNCHANGED <<fnVars, syncVars>>

\* updateKeyword: the store update settles (lines 390-396); then lines
\* 455-458 (rename) or 473-492 (merge).
UpdateDone(k) ==
  /\ mainPc = "merging"
  /\ mergeW[k].pc = "update"
  /\ \/ MergeAbort("mergeUpdate")
     \/ LET w == mergeW[k]
            st == [store EXCEPT ![Target(groups, w)] =
                     [@ EXCEPT !.keyword = w.keyword,
                               !.description = w.description,
                               !.embedding = "vec",
                               !.name_embedding = "vec"]]
        IN IF w.op = "rename"
           THEN Resume(k, NextSecondary(groups, w, w.s + 1), st)
           ELSE IF DELETE_SECONDARIES
                THEN Resume(k, [w EXCEPT !.pc = "delete"], st)
                ELSE Resume(k, NextSecondary(groups, RefreshPrimary(w), w.s + 1), st)
  /\ UNCHANGED <<fnVars, syncVars>>

\* The delete of the merged secondary settles (lines 474-482).
DeleteDone(k) ==
  /\ mainPc = "merging"
  /\ mergeW[k].pc = "delete"
  /\ \/ MergeAbort("mergeDelete")
     \/ LET w == mergeW[k]
        IN Resume(k, NextSecondary(groups, RefreshPrimary(w), w.s + 1),
                  [store EXCEPT ![groups[w.g][w.s]].exists = FALSE])
  /\ UNCHANGED <<fnVars, syncVars>>

\* Promise.all(workers) resolved (lines 574-576).
MergeFinished ==
  /\ mainPc = "merging"
  /\ AllDone(mergeW)
  /\ mainPc' = "done"
  /\ UNCHANGED <<config, switches, store, rows, exitCause, cursor, embedW,
                 embedded, embedLog, pairs, groups, mergeW,
                 poolLimit>>
  /\ UNCHANGED <<fnVars, syncVars>>

\* ------------------------------------------------------------------ run
InitStore(n) ==
  [id \in 1..n |->
     [exists |-> TRUE, keyword |-> RowKeyword(id),
      description |-> RowDescription(id),
      embedding |-> "vec", name_embedding |-> "vec"]]

InitRun ==
  /\ \E c \in ConfigCases :
       /\ config = [apply |-> c.apply, deleteSecondaries |-> c.deleteSecondaries,
                    aggressiveDelete |-> c.aggressiveDelete,
                    useNameEmbeddingOnly |-> c.useNameEmbeddingOnly]
       /\ switches = c.switches
  /\ \E n \in {0, MaxRows} :
       \E missingText \in SUBSET (1..Min(n, MaxMissing)) :
       \E missingName \in SUBSET (1..Min(n, MaxMissing)) :
         store = [id \in 1..n |->
                    [InitStore(n)[id] EXCEPT
                       !.embedding = IF id \in missingText THEN "none" ELSE "vec",
                       !.name_embedding = IF id \in missingName THEN "none" ELSE "vec"]]
  /\ rows = <<>>
  /\ mainPc = "start"
  /\ exitCause = "none"
  /\ cursor = 0
  /\ embedW = <<>>
  /\ embedded = {}
  /\ embedLog = <<>>
  /\ poolLimit = 0
  /\ pairs = <<>>
  /\ groups = <<>>
  /\ mergeW = <<>>

Init ==
  /\ InitRun
  /\ fnPc = "off" /\ fnIn = <<>> /\ fnOut = <<>>
  /\ SyncIdle

Next ==
  \/ FetchError
  \/ FetchEmpty
  \/ FetchAndStartEmbedding
  \/ \E w \in DOMAIN embedW : EmbedTextDone(w)
  \/ \E w \in DOMAIN embedW : EmbedNameDone(w)
  \/ \E w \in DOMAIN embedW : EmbedSaveDone(w)
  \/ ComputePairs
  \/ GroupAndDispatch
  \/ \E k \in DOMAIN mergeW : AggressiveDeleteDone(k)
  \/ \E k \in DOMAIN mergeW : DecideDone(k)
  \/ \E k \in DOMAIN mergeW : RegenTextDone(k)
  \/ \E k \in DOMAIN mergeW : RegenNameDone(k)
  \/ \E k \in DOMAIN mergeW : UpdateDone(k)
  \/ \E k \in DOMAIN mergeW : DeleteDone(k)
  \/ MergeFinished

Spec == Init /\ [][Next]_vars


\* -------------------------------------------------- buildPairs on its own
RunIdle ==
  /\ config = [apply |-> Shipped.apply,
               deleteSecondaries |-> Shipped.deleteSecondaries,
               aggressiveDelete |-> Shipped.aggressiveDelete,
               useNameEmbeddingOnly |-> Shipped.useNameEmbeddingOnly]
  /\ switches = {}
  /\ store = <<>>
  /\ rows = <<>>
  /\ mainPc = "off"
  /\ exitCause = "none"
  /\ cursor = 0
  /\ embedW = <<>>
  /\ embedded = {}
  /\ embedLog = <<>>
  /\ poolLimit = 0
  /\ pairs = <<>>
  /\ groups = <<>>
  /\ mergeW = <<>>

\* Any scores for any number of rows, any threshold, any cap (0 = no cap).
InitPairs ==
  /\ RunIdle
  /\ SyncIdle
  /\ fnPc = "buildPairs"
  /\ \E n \in 1..MaxRows :
       \E score \in [PairIndex(n) -> Scores], threshold \in Thresholds,
          cap \in 0..MaxCap :
         fnIn = [n |-> n, score |-> score, threshold |-> threshold, cap |-> cap]
  /\ fnOut = <<>>

CallBuildPairs ==
  /\ fnPc = "buildPairs"
  /\ fnOut' = buildPairs(fnIn.n, fnIn.score, fnIn.threshold, fnIn.cap)
  /\ fnPc' = "returned"
  /\ UNCHANGED fnIn
  /\ UNCHANGED <<runVars, syncVars>>

NextPairs == CallBuildPairs

SpecPairs == InitPairs /\ [][NextPairs]_vars

\* -------------------------------------------------- groupPairs on its own
Injective(f) == \A i, j \in DOMAIN f : i # j => f[i] # f[j]

\* Every list of at most MaxPairs distinct pairs over MaxIds ids, in every
\* order.
PairLists ==
  LET idx == UNION {[1..k -> PairIndex(MaxIds)] : k \in 0..MaxPairs}
  IN {[k \in DOMAIN f |-> [a |-> f[k][1], b |-> f[k][2], score |-> RunThreshold]] :
        f \in {h \in idx : Injective(h)}}

InitGroup ==
  /\ RunIdle
  /\ SyncIdle
  /\ fnPc = "groupPairs"
  /\ \E ps \in PairLists, size \in GroupSizeCaps :
       fnIn = [pairs |-> ps, maxGroupSize |-> size]
  /\ fnOut = <<>>

CallGroupPairs ==
  /\ fnPc = "groupPairs"
  /\ fnOut' = groupPairs(fnIn.pairs, MAX_GROUP_SIZE(fnIn.maxGroupSize))
  /\ fnPc' = "returned"
  /\ UNCHANGED fnIn
  /\ UNCHANGED <<runVars, syncVars>>

NextGroup == CallGroupPairs

SpecGroup == InitGroup /\ [][NextGroup]_vars


\* ================================================================ claims
\* ----------------------------------------------- cosineSimilarity alone
\* A JavaScript number: a finite value v / sqrt(d), NaN, or an infinity of
\* sign v. Small integers stand for the finite values, so no sum overflows.
Num(n) == [k |-> "num", v |-> n, d |-> 1]

NaN == [k |-> "nan", v |-> 0, d |-> 1]

Infinity(sign) == [k |-> "inf", v |-> sign, d |-> 1]

Sign(n) == IF n > 0 THEN 1 ELSE IF n < 0 THEN 0 - 1 ELSE 0

\* x * y
Times(x, y) ==
  IF x.k = "nan" \/ y.k = "nan" THEN NaN
  ELSE IF x.k = "num" /\ y.k = "num" THEN Num(x.v * y.v)
  ELSE IF Sign(x.v) * Sign(y.v) = 0 THEN NaN
  ELSE Infinity(Sign(x.v) * Sign(y.v))

\* x + y
Plus(x, y) ==
  IF x.k = "nan" \/ y.k = "nan" THEN NaN
  ELSE IF x.k = "num" /\ y.k = "num" THEN Num(x.v + y.v)
  ELSE IF x.k = "inf" /\ y.k = "inf"
       THEN IF x.v = y.v THEN x ELSE NaN
  ELSE IF x.k = "inf" THEN x ELSE y

\* x === 0
IsZero(x) == x.k = "num" /\ x.v = 0

\* dot / (Math.sqrt(normA) * Math.sqrt(normB)); the norms are sums of squares.
Quotient(dot, normA, normB) ==
  IF dot.k = "nan" \/ normA.k = "nan" \/ normB.k = "nan" THEN NaN
  ELSE IF normA.k = "inf" \/ normB.k = "inf"
       THEN IF IsZero(normA) \/ IsZero(normB) \/ dot.k = "inf" THEN NaN
            ELSE Num(0)
  ELSE IF normA.v * normB.v = 0
       THEN IF IsZero(dot) THEN NaN ELSE Infinity(Sign(dot.v))
  ELSE IF dot.k = "inf" THEN dot
  ELSE [k |-> "num", v |-> dot.v, d |-> normA.v * normB.v]

\* Lines 96-106: dot, normA and normB after components i..length.
RECURSIVE Accumulate(_, _, _, _)
Accumulate(a, b, i, acc) ==
  IF i > Len(a) THEN acc
  ELSE Accumulate(a, b, i + 1,
         [dot |-> Plus(acc.dot, Times(a[i], b[i])),
          normA |-> Plus(acc.normA, Times(a[i], a[i])),
          normB |-> Plus(acc.normB, Times(b[i], b[i]))])

\* Line 108 taken out: the division is always made.
ZeroNormMutantNever(normA, normB) == FALSE

\* Line 108.
ZeroNorm(normA, normB) == IsZero(normA) \/ IsZero(normB)

\* cosineSimilarity (newsVectors.ts lines 90-110) for two arrays.
cosineSimilarity(a, b) ==
  IF Len(a) = 0 \/ Len(b) = 0 THEN Num(0)
  ELSE IF Len(a) # Len(b) THEN Num(0)
  ELSE LET sums == Accumulate(a, b, 1,
                     [dot |-> Num(0), normA |-> Num(0), normB |-> Num(0)])
       IN IF ZeroNorm(sums.normA, sums.normB) THEN Num(0)
          ELSE Quotient(sums.dot, sums.normA, sums.normB)

Components == {Num(0 - 1), Num(0), Num(1), NaN, Infinity(1)}

Vectors == UNION {[1..n -> Components] : n \in 0..MaxDim}

InitCosine ==
  /\ RunIdle
  /\ SyncIdle
  /\ fnPc = "cosineSimilarity"
  /\ \E a, b \in Vectors : fnIn = [a |-> a, b |-> b]
  /\ fnOut = <<>>

CallCosineSimilarity ==
  /\ fnPc = "cosineSimilarity"
  /\ fnOut' = cosineSimilarity(fnIn.a, fnIn.b)
  /\ fnPc' = "returned"
  /\ UNCHANGED fnIn
  /\ UNCHANGED <<runVars, syncVars>>

NextCosine == CallCosineSimilarity

SpecCosine == InitCosine /\ [][NextCosine]_vars

\* ------------------------------------------------------------------ claims
DecisionMode == APPLY /\ ~AggressiveMode

WritePcs == {"update", "delete", "aggressiveDelete"}

\* C1: in an apply run in decision mode, a failed store mutation (update of
\* the primary or the secondary, delete of the secondary) is caught and the
\* run goes on: such a failure never ends the run.
C1_MutationFailureCaught ==
  DecisionMode => exitCause \notin {"mergeUpdate", "mergeDelete"}

\* C2: a dry run issues no update and no delete against any keyword row, the
\* embedding phase included.
C2_DryRunNeverWrites ==
  ~APPLY =>
    /\ \A w \in DOMAIN embedW : embedW[w].pc # "update"
    /\ \A k \in DOMAIN mergeW : mergeW[k].pc \notin WritePcs

\* C3: without the apply flag or environment switch the run is a dry run: it
\* stops before the merge phase and no cluster reaches applyMerge.
C3_DryRunUnlessRequested ==
  "apply" \notin switches => (mainPc # "merging" /\ mergeW = <<>>)

\* C4: a failure while computing or saving one entity's embedding does not
\* end the run; only a failed fetch does.
C4_EmbedFailureNonFatal ==
  exitCause # "embed"

Endpoints(ps, id) == {k \in 1..Len(ps) : ps[k].a = id \/ ps[k].b = id}

\* C5: with a cap maxNeighborsPerKeyword > 0, every id is an endpoint of at
\* most that many of the pairs buildPairs returns.
C5_NeighborCap ==
  (fnPc = "returned" /\ fnIn.cap > 0) =>
    \A id \in 1..fnIn.n : Cardinality(Endpoints(fnOut, id)) <= fnIn.cap

\* C5 witness: the cap dropped a qualifying pair of an id that kept cap pairs.
C5_Witness ==
  /\ fnPc = "returned"
  /\ fnIn.cap > 0
  /\ \E id \in 1..fnIn.n :
       /\ Cardinality(Endpoints(fnOut, id)) = fnIn.cap
       /\ Cardinality(Endpoints(allCandidates(fnIn.n, fnIn.score, fnIn.threshold), id))
            > fnIn.cap

\* C6: the clusters groupPairs returns share no id, and no cluster holds an
\* id twice.
C6_ClustersDisjoint ==
  fnPc = "returned" =>
    \A i, j \in 1..Len(fnOut) :
      \A p \in 1..Len(fnOut[i]), q \in 1..Len(fnOut[j]) :
        fnOut[i][p] = fnOut[j][q] => (i = j /\ p = q)

\* C6 witness: two clusters came back, one of them built from pairs that
\* share an id.
C6_Witness ==
  /\ fnPc = "returned"
  /\ \E i, j \in 1..Len(fnOut) : i # j
  /\ \E i, j \in 1..Len(fnIn.pairs) :
       i # j /\ {fnIn.pairs[i].a, fnIn.pairs[i].b}
                  \cap {fnIn.pairs[j].a, fnIn.pairs[j].b} # {}

\* C7: the primary of every cluster, group[0], is its smallest id, whatever
\* the order of the pairs and whichever root the component ended with.
C7_PrimaryIsSmallest ==
  fnPc = "returned" =>
    \A g \in 1..Len(fnOut) : \A p \in 1..Len(fnOut[g]) : fnOut[g][1] <= fnOut[g][p]

\* C7 witness: a cluster whose union-find root is not its smallest id.
C7_Witness ==
  /\ fnPc = "returned"
  /\ \E g \in 1..Len(fnOut) :
       find(unionAll(<<>>, fnIn.pairs), fnOut[g][1]).root # fnOut[g][1]

PrimaryId(k) == groups[mergeW[k].g][1]

\* C8: a decision call carries, as the primary's name and description, what
\* the latest successful merge of its cluster wrote to the primary's row (the
\* row's original values if none did); skip, rename and failed decisions do
\* not change them.
C8_DecisionChaining ==
  \A k \in DOMAIN mergeW :
    mergeW[k].pc = "decide" =>
      /\ mergeW[k].call.keyword = store[PrimaryId(k)].keyword
      /\ mergeW[k].call.description = store[PrimaryId(k)].description

\* C8 witness: the decision call for a later secondary, after a merge gave
\* the primary a new name.
C8_Witness ==
  \E k \in DOMAIN mergeW :
    /\ mergeW[k].pc = "decide"
    /\ mergeW[k].s > 2
    /\ store[PrimaryId(k)].keyword # rows[PrimaryId(k)].keyword
    /\ mergeW[k].call.keyword = store[PrimaryId(k)].keyword

\* C9: a rename whose proposed name is empty after trimming, or equal to the
\* secondary's current name, or equal to the primary's current name, issues
\* no store update: no updateKeyword call is under way for it.
C9_RenameNoOpGuard ==
  \A k \in DOMAIN mergeW :
    (mergeW[k].op = "rename" /\ mergeW[k].pc \in {"regenText", "regenName", "update"}) =>
      LET w == mergeW[k]
          secondary == rows[groups[w.g][w.s]]
      IN ~(\/ TrimOr(w.proposed, <<>>) = <<>>
           \/ w.proposed = secondary.keyword
           \/ w.proposed = w.primaryKeyword)

Secondaries == UNION {Victims(groups[g]) : g \in 1..Len(groups)}

Primaries == {groups[g][1] : g \in 1..Len(groups)}

\* C10: with aggressive mode on, every secondary of every cluster is deleted,
\* no primary is updated or deleted, no decision call is made, and aggressive
\* and decision processing never share a run.
C10_AggressiveMode ==
  (APPLY /\ AggressiveMode) =>
    /\ \A k \in DOMAIN mergeW : mergeW[k].pc \in {"aggressiveDelete", "returned", "done"}
    /\ \A id \in Primaries :
         /\ store[id].exists
         /\ store[id].keyword = rows[id].keyword
         /\ store[id].description = rows[id].description
    /\ mainPc \in {"done", "failed"} => \A id \in Secondaries : ~store[id].exists

\* C11: when the decision call for a (primary, secondary) pair fails or
\* returns something that is not merge / rename / skip, the store is left as
\* it was, the run does not abort, and the loop goes on with the cluster's
\* next secondary under the same primary snapshot (or, after the last
\* secondary, the worker leaves the cluster).
C11_DecisionFailureSkips ==
  [][\A k \in DOMAIN mergeW :
       (mainPc = "merging" /\ mergeW[k].pc = "decide" /\ DecisionFailed(k)) =>
         /\ store' = store
         /\ mainPc' = "merging" /\ exitCause' = "none"
         /\ IF mergeW[k].s < Len(groups[mergeW[k].g])
            THEN /\ mergeW'[k].pc = "decide"
                 /\ mergeW'[k].g = mergeW[k].g
                 /\ mergeW'[k].s = mergeW[k].s + 1
                 /\ mergeW'[k].call = mergeW[k].call
                 /\ mergeW'[k].primaryKeyword = mergeW[k].primaryKeyword
                 /\ mergeW'[k].primaryDescription = mergeW[k].primaryDescription
            ELSE mergeW'[k].g # mergeW[k].g]_vars

\* C11 witness: after a merge gave the primary a new name, the decision call
\* for the next secondary failed, and the call for the secondary after it
\* is out with the merged name.
C11_Witness ==
  \E k \in DOMAIN mergeW :
    /\ mainPc = "merging"
    /\ mergeW[k].pc = "decide" /\ mergeW[k].caught
    /\ mergeW[k].s >= 4
    /\ mergeW[k].call.keyword # rows[PrimaryId(k)].keyword

\* C12: for the same rows, scores and neighbour cap, buildPairs returns no
\* more pairs with a higher threshold than with a lower one.
C12_ThresholdMonotone ==
  fnPc = "returned" =>
    \A t \in Thresholds :
      LET other == buildPairs(fnIn.n, fnIn.score, t, fnIn.cap)
      IN /\ t >= fnIn.threshold => Len(other) <= Len(fnOut)
         /\ t <= fnIn.threshold => Len(fnOut) <= Len(other)

\* C12 witness: the cap dropped a pair at the lower threshold, and the higher
\* threshold returns fewer pairs, but some.
C12_Witness ==
  /\ fnPc = "returned"
  /\ fnIn.cap > 0
  /\ Len(fnOut) < Len(allCandidates(fnIn.n, fnIn.score, fnIn.threshold))
  /\ \E t \in Thresholds :
       LET other == buildPairs(fnIn.n, fnIn.score, t, fnIn.cap)
       IN t > fnIn.threshold /\ 0 < Len(other) /\ Len(other) < Len(fnOut)

Range(f) == {f[k] : k \in DOMAIN f}

\* q is reached before p: a higher score, or the same score and an earlier
\* place in the scan of lines 279-280.
ReachedBefore(q, p) ==
  \/ q.score > p.score
  \/ /\ q.score = p.score
     /\ (q.a < p.a \/ (q.a = p.a /\ q.b < p.b))

Touches(p, id) == p.a = id \/ p.b = id

\* C18: with a cap, a qualifying pair is returned exactly when, among the
\* returned pairs reached before it in descending score order, each of its
\* endpoints has fewer than cap; and an id with more qualifying pairs than
\* the cap whose partners have no other qualifying pair keeps exactly cap
\* pairs, none scoring below a pair of its that was dropped.
C18_GreedyCap ==
  (fnPc = "returned" /\ fnIn.cap > 0) =>
    LET cands == Range(allCandidates(fnIn.n, fnIn.score, fnIn.threshold))
        kept == Range(fnOut)
        Of(ps, id) == {p \in ps : Touches(p, id)}
    IN /\ kept \subseteq cands
       /\ Cardinality(kept) = Len(fnOut)
       /\ \A p \in cands :
            p \in kept <=>
              \A id \in {p.a, p.b} :
                Cardinality({q \in Of(kept, id) : ReachedBefore(q, p)}) < fnIn.cap
       /\ \A id \in 1..fnIn.n :
            (/\ Cardinality(Of(cands, id)) > fnIn.cap
             /\ \A p \in Of(cands, id) :
                  \A other \in {p.a, p.b} \ {id} :
                    Cardinality(Of(cands, other)) = 1)
            => /\ Cardinality(Of(kept, id)) = fnIn.cap
               /\ \A p \in Of(kept, id), q \in Of(cands, id) \ kept :
                    p.score >= q.score

\* C18 witness: an id with more qualifying pairs than the cap, partners with
\* no other qualifying pair, and a dropped pair scoring below a kept one.
C18_Witness ==
  /\ fnPc = "returned"
  /\ fnIn.cap > 1
  /\ LET cands == Range(allCandidates(fnIn.n, fnIn.score, fnIn.threshold))
         kept == Range(fnOut)
     IN \E id \in 1..fnIn.n :
          /\ Cardinality({p \in cands : Touches(p, id)}) > fnIn.cap
          /\ \A p \in cands : Touches(p, id)
          /\ \E p \in kept, q \in cands \ kept : p.score > q.score

\* The store writes that have been issued and have not settled, as
\* <<pool, worker, keyword id>>.
WritesInFlight ==
  {<<"embed", w, rows[embedW[w].idx].id>> :
      w \in {v \in DOMAIN embedW : embedW[v].pc = "update"}}
  \cup {<<"merge", k, Target(groups, mergeW[k])>> :
      k \in {v \in DOMAIN mergeW : mergeW[v].pc = "update"}}
  \cup {<<"merge", k, groups[mergeW[k].g][mergeW[k].s]>> :
      k \in {v \in DOMAIN mergeW : mergeW[v].pc = "delete"}}
  \cup UNION {{<<"merge", k, id>> : id \in Victims(groups[mergeW[k].g])} :
      k \in {v \in DOMAIN mergeW : mergeW[v].pc = "aggressiveDelete"}}

\* C13: no two store writes to the same keyword id are in flight at the same
\* time, and no write of the merge phase is in flight together with a write
\* of the embedding phase.
C13_NoConcurrentWritesToOneRow ==
  /\ \A x, y \in WritesInFlight : x[3] = y[3] => x = y
  /\ \A x, y \in WritesInFlight : x[1] = y[1]

\* C13 witness: two merge workers each have a write in flight.
C13_Witness ==
  /\ mainPc = "merging"
  /\ \E x, y \in WritesInFlight : x[1] = "merge" /\ y[1] = "merge" /\ x[2] # y[2]

\* The awaits of one pass of the loop of lines 422-493, in program order.
LoopPcs == {"decide", "regenText", "regenName", "update", "delete"}

\* C14: in decision mode the secondaries of a cluster are handled one at a
\* time in ascending id order. One worker holds a cluster, its members are in
\* ascending id order, it starts with the member after the primary, and it
\* issues the decision call for the next member only when the decision and
\* every store mutation for the current one have settled.
C14_SecondariesInOrder ==
  [][\A k \in DOMAIN mergeW' :
       LET w == IF k \in DOMAIN mergeW THEN mergeW[k] ELSE Resting
           v == mergeW'[k]
       IN v.pc \in LoopPcs =>
            /\ \A j \in DOMAIN mergeW' : (j # k /\ mergeW'[j].g = v.g) =>
                                            mergeW'[j].pc \notin LoopPcs
            /\ \A i \in 1..(Len(groups'[v.g]) - 1) :
                 groups'[v.g][i] < groups'[v.g][i + 1]
            /\ IF w.pc \in LoopPcs /\ w.g = v.g
               THEN \/ v.s = w.s
                    \/ v.s = w.s + 1 /\ v.pc = "decide"
                         /\ w.pc \in {"decide", "update", "delete"}
               ELSE v.s = 2 /\ v.pc = "decide"]_vars

\* C14 witness: the decision call for a later secondary is out, after the
\* secondary before it was merged into the primary and deleted.
C14_Witness ==
  \E k \in DOMAIN mergeW :
    /\ mainPc = "merging"
    /\ mergeW[k].pc = "decide" /\ mergeW[k].s >= 3
    /\ ~store[groups[mergeW[k].g][mergeW[k].s - 1]].exists

EmbeddingOver == \A k \in DOMAIN embedW : embedW[k].pc = "done"

\* C15: the phases are strictly ordered. The similarity loop has run only if
\* every embedding worker has finished, and a merge worker exists only after
\* the pairs were built and grouped.
C15_PhasesOrdered ==
  /\ (mainPc \in {"grouping", "merging"} \/ pairs # <<>> \/ groups # <<>>)
       => EmbeddingOver
  /\ (mainPc = "done" /\ rows # <<>>) => EmbeddingOver
  /\ mergeW # <<>> =>
       /\ EmbeddingOver
       /\ groups # <<>>
       /\ mainPc \in {"merging", "done", "failed"}
  /\ mainPc \in {"start", "embedding"} =>
       pairs = <<>> /\ groups = <<>> /\ mergeW = <<>>

\* C15 witness: two embedding workers ran, and two merge workers are at
\* work on two clusters.
C15_Witness ==
  /\ mainPc = "merging"
  /\ Len(embedW) = 2
  /\ \E j, k \in DOMAIN mergeW :
       j # k /\ mergeW[j].pc \in WritePcs /\ mergeW[k].pc \in LoopPcs

Clustered(gs) == UNION {Range(gs[g]) : g \in DOMAIN gs}

\* C16: a keyword that is in no cluster is left alone by the merge phase. No
\* decision call is about it, and no step of the merge phase changes or
\* deletes its row.
C16_UnclusteredUntouched ==
  [][mainPc = "merging" =>
       \A id \in DOMAIN store \ Clustered(groups) :
         /\ store'[id] = store[id]
         /\ \A k \in DOMAIN mergeW' :
              mergeW'[k].pc \in LoopPcs =>
                id \notin {groups[mergeW'[k].g][1], groups[mergeW'[k].g][mergeW'[k].s]}]_vars

\* C16 witness: the merge phase gave a clustered keyword a new name and has
\* ended, and a
\* keyword outside every cluster is in the store.
C16_Witness ==
  /\ mainPc = "done"
  /\ mergeW # <<>>
  /\ DOMAIN store \ Clustered(groups) # {}
  /\ \E id \in Clustered(groups) :
       store[id].exists /\ store[id].keyword # rows[id].keyword

\* The ids linked to an id of S by a path of pairs.
RECURSIVE Linked(_, _)
Linked(S, ps) ==
  LET T == S \cup {ps[k].b : k \in {j \in DOMAIN ps : ps[j].a \in S}}
             \cup {ps[k].a : k \in {j \in DOMAIN ps : ps[j].b \in S}}
  IN IF T = S THEN S ELSE Linked(T, ps)

\* C17: with no size cap, the clusters of groupPairs are the connected
\* components of the graph of the pairs. Two ids are in one cluster exactly
\* when a path of pairs links them, and every cluster has at least 2 members.
C17_ClustersAreComponents ==
  (fnPc = "returned" /\ fnIn.maxGroupSize = 0) =>
    LET nodes == UNION {{fnIn.pairs[k].a, fnIn.pairs[k].b} : k \in DOMAIN fnIn.pairs}
    IN /\ Clustered(fnOut) = nodes
       /\ \A x, y \in nodes :
            (\E g \in DOMAIN fnOut : {x, y} \subseteq Range(fnOut[g]))
              <=> y \in Linked({x}, fnIn.pairs)
       /\ \A g \in DOMAIN fnOut : Cardinality(Range(fnOut[g])) >= 2

\* C17 witness: two clusters, one of them holding two ids that no pair
\* joins directly.
C17_Witness ==
  /\ fnPc = "returned" /\ fnIn.maxGroupSize = 0
  /\ Len(fnOut) = 2
  /\ \E g \in DOMAIN fnOut : \E x, y \in Range(fnOut[g]) :
       /\ x # y
       /\ \A k \in DOMAIN fnIn.pairs : {fnIn.pairs[k].a, fnIn.pairs[k].b} # {x, y}

AllZero(v) == \A i \in DOMAIN v : IsZero(v[i])

\* C19: cosineSimilarity returns the number 0, and not NaN, when one of two
\* vectors of the same length has only zero components, whatever the other
\* vector holds.
C19_ZeroVectorGivesZero ==
  (/\ fnPc = "returned"
   /\ Len(fnIn.a) = Len(fnIn.b)
   /\ AllZero(fnIn.a) \/ AllZero(fnIn.b))
  => fnOut = Num(0)

\* C19 witness: a zero vector against a vector with a NaN and a non-zero
\* component gave 0.
C19_Witness ==
  /\ fnPc = "returned"
  /\ Len(fnIn.a) = MaxDim /\ Len(fnIn.b) = MaxDim
  /\ AllZero(fnIn.a)
  /\ \E i, j \in DOMAIN fnIn.b : fnIn.b[i] = NaN /\ fnIn.b[j] = Num(1)
  /\ fnOut = Num(0)

\* The vector kinds ensureEmbeddings has to produce for a row.
Required(id) ==
  {kind \in embedLog[id].missing : kind = "name_embedding" \/ SHOULD_EMBED_TEXT}

Occurrences(seq, x) == Cardinality({i \in DOMAIN seq : seq[i] = x})

\* C20: in the embedding phase each row is handled once; each vector kind
\* the row lacks is computed exactly once and goes out in exactly one store
\* update for that row; a row that lacks nothing causes no embed call and no
\* update. Checked while the phase runs (never more than once, never for a
\* kind that is not needed) and when the row's handling or the phase is over
\* (exactly once).
C20_EmbedOncePerMissingKind ==
  \A id \in DOMAIN embedLog :
    LET e == embedLog[id]
        over == mainPc # "embedding" \/ id \in embedded
    IN /\ e.handled <= 1
       /\ \A i \in DOMAIN e.computed :
            e.computed[i] \in Required(id) /\ Occurrences(e.computed, e.computed[i]) = 1
       /\ Len(e.saves) <= 1
       /\ \A i \in DOMAIN e.saves : e.saves[i] \subseteq Required(id)
       /\ over =>
            /\ e.handled = 1
            /\ \A kind \in Required(id) :
                 /\ Occurrences(e.computed, kind) = 1
                 /\ Len(e.saves) = 1 /\ kind \in e.saves[1]

\* The step in which worker k's store update of a merge settles without error.
MergeUpdateSettles(k) ==
  /\ mainPc = "merging" /\ mainPc' = "merging"
  /\ mergeW[k].pc = "update" /\ mergeW[k].op = "merge"
  /\ mergeW'[k] # mergeW[k]

Blank(x) == x = NULL \/ Trim(x) = <<>>

\* The non-blank ones of the snapshot's and the secondary's descriptions,
\* joined by a line break.
BothDescriptions(k) ==
  Join(SelectSeq(<<mergeW[k].primaryDescription,
                   rows[groups[mergeW[k].g][mergeW[k].s]].description>>,
                 LAMBDA x : ~Blank(x)), <<"\n">>)

\* C21 as stated: a merge writes to the primary the proposed name when it is
\* non-blank, else the snapshot name; and the proposed description when it
\* is non-blank, else the concatenation of the non-blank snapshot and
\* secondary descriptions, else null.
C21_MergeWritesProposal ==
  [][\A k \in DOMAIN mergeW :
       MergeUpdateSettles(k) =>
         LET w == mergeW[k]
             row == store'[PrimaryId(k)]
         IN /\ row.keyword = IF Blank(w.proposed) THEN w.primaryKeyword
                             ELSE w.proposed
            /\ row.description =
                 IF ~Blank(w.proposedDescription) THEN w.proposedDescription
                 ELSE IF BothDescriptions(k) # <<>> THEN BothDescriptions(k)
                 ELSE NULL]_vars

\* C21 amended: the same with surrounding whitespace removed from the
\* proposed name, from the proposed description and from the concatenation;
\* the snapshot name is written as it is.
C21_MergeWritesTrimmedProposal ==
  [][\A k \in DOMAIN mergeW :
       MergeUpdateSettles(k) =>
         LET w == mergeW[k]
             row == store'[PrimaryId(k)]
         IN /\ row.keyword = IF Blank(w.proposed) THEN w.primaryKeyword
                             ELSE Trim(w.proposed)
            /\ row.description =
                 IF ~Blank(w.proposedDescription) THEN Trim(w.proposedDescription)
                 ELSE IF Trim(BothDescriptions(k)) # <<>>
                      THEN Trim(BothDescriptions(k))
                 ELSE NULL]_vars

\* C21 witness: a merge that proposed the name " a" and no description has
\* settled: the primary is named "a" and holds the two descriptions joined.
C21_Witness ==
  \E k \in DOMAIN mergeW :
    /\ mainPc = "merging"
    /\ mergeW[k].pc = "delete"
    /\ mergeW[k].proposed = <<" ", "a">> /\ mergeW[k].proposedDescription = NULL
    /\ store[PrimaryId(k)].keyword = <<"a">>
    /\ \E i \in DOMAIN store[PrimaryId(k)].description :
         store[PrimaryId(k)].description[i] = "\n"

\* A step of worker k that starts or continues the rename of a secondary.
RenameStep(k) ==
  /\ mainPc = "merging"
  /\ mergeW'[k] # mergeW[k]
  /\ \/ mergeW[k].op = "rename"
     \/ mergeW[k].pc = "decide" /\ mergeW'[k].op = "rename"
          /\ mergeW'[k].g = mergeW[k].g /\ mergeW'[k].s = mergeW[k].s

\* C22: a rename that goes through (a non-empty proposed name that differs
\* from the secondary's and from the primary's) writes the secondary's row
\* only. The secondary stays in the store, no other row changes, and the
\* primary snapshot kept for the cluster's later decisions is what it was.
C22_RenameTouchesSecondaryOnly ==
  [][\A k \in DOMAIN mergeW :
       RenameStep(k) =>
         LET secondary == groups[mergeW[k].g][mergeW[k].s]
         IN /\ \A id \in DOMAIN store \ {secondary} : store'[id] = store[id]
            /\ store'[secondary].exists
            /\ mergeW'[k].g = mergeW[k].g =>
                 /\ mergeW'[k].primary = mergeW[k].primary
                 /\ mergeW'[k].primaryKeyword = mergeW[k].primaryKeyword
                 /\ mergeW'[k].primaryDescription = mergeW[k].primaryDescription]_vars

\* C22 witness: a rename gave the previous secondary a new name, and the
\* decision call for the next secondary carries the primary's original name.
C22_Witness ==
  \E k \in DOMAIN mergeW :
    /\ mainPc = "merging"
    /\ mergeW[k].pc = "decide" /\ mergeW[k].s >= 3
    /\ LET before == groups[mergeW[k].g][mergeW[k].s - 1]
       IN /\ store[before].exists
          /\ store[before].keyword # rows[before].keyword
          /\ Trim(store[before].keyword) # Trim(rows[PrimaryId(k)].keyword)
    /\ mergeW[k].call.keyword = rows[PrimaryId(k)].keyword
    /\ store[PrimaryId(k)] = [store[PrimaryId(k)] EXCEPT
                                !.keyword = rows[PrimaryId(k)].keyword,
                                !.description = rows[PrimaryId(k)].description]

MembersAscending ==
  \A g \in DOMAIN fnOut : \A i \in 1..(Len(fnOut[g]) - 1) :
    fnOut[g][i] < fnOut[g][i + 1]

\* The place in the pair list where the cluster's root is first met: the
\* first pair with a member of the cluster.
FirstSeen(g) ==
  CHOOSE k \in DOMAIN fnIn.pairs :
    /\ fnIn.pairs[k].a \in Range(g)
    /\ \A j \in 1..(k - 1) : fnIn.pairs[j].a \notin Range(g)

\* The union-find root the cluster was collected under.
RootOf(g) == find(unionAll(<<>>, fnIn.pairs), g[1]).root

\* C23 as stated: groupPairs returns every cluster with its members in
\* ascending id order, and the clusters in the order in which their roots
\* are first met while scanning the pair list.
C23_ClustersInFirstSeenOrder ==
  fnPc = "returned" =>
    /\ MembersAscending
    /\ \A g, h \in DOMAIN fnOut :
         g < h => FirstSeen(fnOut[g]) < FirstSeen(fnOut[h])

\* C23 amended: members in ascending id order, and the clusters in ascending
\* order of the id of their union-find root.
C23_ClustersInRootOrder ==
  fnPc = "returned" =>
    /\ MembersAscending
    /\ \A g, h \in DOMAIN fnOut :
         g < h => RootOf(fnOut[g]) < RootOf(fnOut[h])

\* C23 witness: two clusters came back, the one met first in the pair list
\* second, and the first is led by a root that is not its smallest id.
C23_Witness ==
  /\ fnPc = "returned"
  /\ Len(fnOut) = 2
  /\ FirstSeen(fnOut[2]) < FirstSeen(fnOut[1])
  /\ RootOf(fnOut[1]) # fnOut[1][1]

InFlight(ws) == Cardinality({k \in DOMAIN ws : ws[k].pc # "done"})

\* The clusters the merge workers picked up in this step.
PickedUp ==
  {k \in DOMAIN mergeW' :
     /\ mergeW'[k].g # 0
     /\ (k \in DOMAIN mergeW => mergeW'[k].g # mergeW[k].g)}

\* C24: in both pools the cursor gives every item to exactly one worker and
\* the items in flight never outnumber the pool's concurrency setting. No
\* row enters ensureEmbeddings twice, and every row has entered it once when
\* all embedding workers are done. A step hands out the clusters that follow
\* the last one handed out, one to a worker, in order and without a gap, and
\* when the merge pool is done with no failure the cursor is past the last
\* cluster.
C24_PoolsHandEachItemOnce ==
  [][/\ mainPc' = "embedding" =>
          /\ InFlight(embedW') <= poolLimit'
          /\ \A id \in DOMAIN embedLog' : embedLog'[id].handled <= 1
          /\ AllDone(embedW') =>
               /\ DOMAIN embedLog' = {rows'[i].id : i \in DOMAIN rows'}
               /\ \A id \in DOMAIN embedLog' : embedLog'[id].handled = 1
     /\ mainPc' = "merging" =>
          LET from == IF mainPc = "merging" THEN Min(cursor, Len(groups')) ELSE 0
          IN /\ InFlight(mergeW') <= poolLimit'
             /\ {mergeW'[k].g : k \in PickedUp}
                  = (from + 1)..(from + Cardinality(PickedUp))
             /\ from + Cardinality(PickedUp) = Min(cursor', Len(groups'))
     /\ (mainPc' = "done" /\ mergeW' # <<>>) => cursor' >= Len(groups')]_vars

\* C24 witness: a pool of one merge worker has taken the second of two
\* clusters after it finished the first.
C24_Witness ==
  /\ mainPc = "merging"
  /\ poolLimit = 1 /\ Len(groups) = 2
  /\ Len(mergeW) = 1 /\ mergeW[1].g = 2

\* The row as updateKeyword's one update leaves it (lines 390-393).
Rewritten(row, w) ==
  [row EXCEPT !.keyword = w.keyword, !.description = w.description,
              !.embedding = "vec", !.name_embedding = "vec"]

\* C25: a rename or merge update is one write. A row's fields change in the
\* merge phase only in the step that settles the store update of an
\* updateKeyword call for that row, after both vectors were regenerated, and
\* that step sets name, description and both vectors together; the step in
\* which a regeneration fails writes nothing.
C25_UpdateIsOneWrite ==
  [][mainPc = "merging" =>
       /\ \A id \in DOMAIN store :
            (store'[id] # store[id] /\ store'[id].exists = store[id].exists)
              => \E k \in DOMAIN mergeW :
                   /\ mergeW[k].pc = "update"
                   /\ Target(groups, mergeW[k]) = id
                   /\ store'[id] = Rewritten(store[id], mergeW[k])
       /\ exitCause' = "mergeRegen" => store' = store]_vars

\* C25 witness: the second regeneration of an update failed after the first
\* succeeded, and the row still has a name other than the one proposed.
C25_Witness ==
  /\ exitCause = "mergeRegen"
  /\ \E k \in DOMAIN mergeW :
       /\ mergeW[k].pc = "regenName"
       /\ store[Target(groups, mergeW[k])].keyword # mergeW[k].keyword

\* The connected components of the graph of the pairs.
ConnectedComponents(ps) ==
  {Linked({x}, ps) :
     x \in UNION {{ps[k].a, ps[k].b} : k \in DOMAIN ps}}

\* Every cluster has 2..cap members, and no member of a component with
\* more than cap members is in a cluster.
CappedAt(cap, ps, gs) ==
  /\ \A g \in DOMAIN gs : Len(gs[g]) >= 2 /\ Len(gs[g]) <= cap
  /\ \A C \in ConnectedComponents(ps) :
       Cardinality(C) > cap => C \cap Clustered(gs) = {}

\* C26 as stated: with maxGroupSize > 0, every cluster of groupPairs has
\* between 2 and maxGroupSize members, and a component with more members
\* than maxGroupSize has no member in any cluster.
C26_ClustersWithinSetting ==
  (fnPc = "returned" /\ fnIn.maxGroupSize > 0) =>
    CappedAt(fnIn.maxGroupSize, fnIn.pairs, fnOut)

\* C26, amended: with maxGroupSize > 0, the cap in force is maxGroupSize
\* brought into 2..200. Every cluster of groupPairs has between 2 and that
\* many members, and a component with more members has no member in any
\* cluster, so the merge phase is given none of them.
C26_ClustersWithinClampedSetting ==
  (fnPc = "returned" /\ fnIn.maxGroupSize > 0) =>
    CappedAt(IF fnIn.maxGroupSize < 2 THEN 2
             ELSE IF fnIn.maxGroupSize > 200 THEN 200 ELSE fnIn.maxGroupSize,
             fnIn.pairs, fnOut)

\* C26 witness: under a cap, a component of three ids was dropped and a
\* cluster of two was returned.
C26_Witness ==
  /\ fnPc = "returned" /\ fnIn.maxGroupSize > 0
  /\ Len(fnOut) = 1
  /\ \E C \in ConnectedComponents(fnIn.pairs) :
       Cardinality(C) = 3 /\ C \cap Clustered(fnOut) = {}

\* C28: no run deletes the primary of a cluster, in aggressive or in decision
\* mode. The first member of every cluster handed to the merge phase is the
\* cluster's smallest id, and its row exists in every state of the run.
C28_PrimaryNeverDeleted ==
  \A g \in DOMAIN groups :
    /\ \A id \in Range(groups[g]) : groups[g][1] <= id
    /\ store[groups[g][1]].exists

\* C28 witness: the run is over and a cluster of three or more has lost all
\* its secondaries.
C28_Witness ==
  /\ mainPc = "done"
  /\ \E g \in DOMAIN groups :
       /\ Len(groups[g]) >= 3
       /\ \A id \in Victims(groups[g]) : ~store[id].exists

\* C29: in decision mode a row is deleted only by the delete of a merge
\* step, for the step's secondary, after the step's update has given the
\* primary the merged name and description. No row is deleted in a step that
\* settles a decision (skip, rename or failure) or an update, failed or not.
C29_DeleteOnlyAfterPrimaryUpdate ==
  [][(mainPc = "merging" /\ ~AggressiveMode) =>
       \A id \in DOMAIN store :
         store'[id].exists # store[id].exists =>
           \E k \in DOMAIN mergeW :
             LET w == mergeW[k]
             IN /\ w.pc = "delete" /\ w.op = "merge"
                /\ id = groups[w.g][w.s]
                /\ store[PrimaryId(k)].keyword = w.keyword
                /\ store[PrimaryId(k)].description = w.description
                /\ store[PrimaryId(k)].embedding = "vec"
                /\ store[PrimaryId(k)].name_embedding = "vec"]_vars

\* C29 witness: in decision mode a secondary is gone and its primary has a
\* name it did not have when the run started.
C29_Witness ==
  /\ ~AggressiveMode
  /\ \E g \in DOMAIN groups : \E id \in Victims(groups[g]) :
       /\ ~store[id].exists
       /\ store[groups[g][1]].keyword # rows[groups[g][1]].keyword

\* ==================================================== syncNewsFromLinks.ts
\* main() of src/src/scripts/syncNewsFromLinks.ts: crawl workers take links
\* from crawlQueue and push articles to embedQueue; embed workers take the
\* articles, save them and store their vectors.

\* Most target links a run is tried with.
MaxLinks == 2
\* Lines 229-230.
MAX_CRAWL_RETRIES == 2
MAX_EMBED_RETRIES == 2
\* Lines 231-232 have 75 for both; scaled down, so that runs with fewer, as
\* many and more links than workers are all explored.
CRAWL_CONCURRENCY == 1
EMBED_CONCURRENCY == 1

\* What the awaited extractArticleFromUrl gives its caller (lines 252-278):
\* a result with content, a result without, a rejection that
\* extractStatusFromError reads as 404, or another rejection.
ExtractOutcomes == {"content", "empty", "404", "error"}

CrawlResting == [pc |-> "done", link |-> 0, attempts |-> 0]

EmbedResting == [pc |-> "done", id |-> 0, attempts |-> 0]

\* crawlWorker from the loop test to its next await (lines 241-248), or out
\* of the loop and through `finally` (lines 300-302).
crawlWorker(queue, active) ==
  IF queue # <<>>
  THEN [w |-> [pc |-> "sleep", link |-> Head(queue).link,
               attempts |-> Head(queue).attempts],
        queue |-> Tail(queue), active |-> active]
  ELSE [w |-> CrawlResting, queue |-> queue, active |-> active - 1]

\* embedWorker from the top of its loop to its next await (lines 306-318).
embedWorker(queue, active) ==
  IF queue # <<>>
  THEN [w |-> [pc |-> "upsertNews", id |-> Head(queue).id,
               attempts |-> Head(queue).attempts],
        queue |-> Tail(queue)]
  ELSE IF active > 0
       THEN [w |-> [EmbedResting EXCEPT !.pc = "sleep"], queue |-> queue]
       ELSE [w |-> EmbedResting, queue |-> queue]

\* Lines 344-347: k calls of crawlWorker(), each run to its first await.
RECURSIVE StartCrawlers(_, _)
StartCrawlers(k, acc) ==
  IF k = 0 THEN acc
  ELSE LET t == crawlWorker(acc.queue, acc.active + 1)
       IN StartCrawlers(k - 1, [ws |-> Append(acc.ws, t.w), queue |-> t.queue,
                                active |-> t.active])

\* Lines 348-351: k calls of embedWorker(), each run to its first await.
RECURSIVE StartEmbedders(_, _, _, _)
StartEmbedders(k, queue, active, ws) ==
  IF k = 0 THEN [ws |-> ws, queue |-> queue]
  ELSE LET t == embedWorker(queue, active)
       IN StartEmbedders(k - 1, t.queue, active, Append(ws, t.w))

\* An embed task was taken: one more attempt for its id.
Taken(log, w) ==
  IF w.pc = "upsertNews" THEN [log EXCEPT ![w.id].embeds = @ + 1] ELSE log

\* One more retry than line 288 allows.
CrawlRetryMutantOneMore(attempts) == attempts <= MAX_CRAWL_RETRIES

\* Line 288.
CrawlRetry(attempts) == attempts < MAX_CRAWL_RETRIES

\* Line 325.
EmbedRetry(attempts) == attempts < MAX_EMBED_RETRIES

\* main() from its start to `await Promise.all` (lines 201-353). Every link
\* has a URL and no news row, so the filter of lines 213-227 keeps them all.
SyncStart ==
  /\ syncPc = "start"
  /\ IF linkTable = {}
     THEN /\ syncPc' = "done"
          /\ UNCHANGED <<crawlQueue, embedQueue, activeCrawlWorkers,
                         crawlWorkers, embedWorkers>>
     ELSE LET targets == [l \in 1..Cardinality(linkTable) |->
                            [link |-> l, attempts |-> 0]]
              c == StartCrawlers(Min(CRAWL_CONCURRENCY, Len(targets)),
                                 [ws |-> <<>>, queue |-> targets, active |-> 0])
              e == StartEmbedders(Min(EMBED_CONCURRENCY, Len(c.queue)),
                                  <<>>, c.active, <<>>)
          IN /\ syncPc' = "running"
             /\ crawlQueue' = c.queue
             /\ activeCrawlWorkers' = c.active
             /\ crawlWorkers' = c.ws
             /\ embedQueue' = e.queue
             /\ embedWorkers' = e.ws
  /\ UNCHANGED <<linkTable, news, linkLog>>
  /\ UNCHANGED <<runVars, fnVars>>

\* `await sleep(1000)` resumes: extractArticleFromUrl is called (lines 248-252).
CrawlSleepDone(k) ==
  /\ syncPc = "running"
  /\ crawlWorkers[k].pc = "sleep"
  /\ crawlWorkers' = [crawlWorkers EXCEPT ![k].pc = "extract"]
  /\ linkLog' = [linkLog EXCEPT ![crawlWorkers[k].link].crawls = @ + 1]
  /\ UNCHANGED <<syncPc, linkTable, news, crawlQueue, embedQueue,
                 activeCrawlWorkers, embedWorkers>>
  /\ UNCHANGED <<runVars, fnVars>>

\* The crawl worker goes round its loop with the queues as given.
CrawlAgain(k, cq, eq) ==
  LET t == crawlWorker(cq, activeCrawlWorkers)
  IN /\ crawlWorkers' = [crawlWorkers EXCEPT ![k] = t.w]
     /\ crawlQueue' = t.queue
     /\ activeCrawlWorkers' = t.active
     /\ embedQueue' = eq

\* extractArticleFromUrl settles (lines 252-298).
ExtractDone(k) ==
  /\ syncPc = "running"
  /\ crawlWorkers[k].pc = "extract"
  /\ LET w == crawlWorkers[k]
     IN \E outcome \in ExtractOutcomes :
          CASE outcome = "content" ->
                 /\ CrawlAgain(k, crawlQueue,
                               Append(embedQueue, [id |-> w.link, attempts |-> 0]))
                 /\ UNCHANGED linkLog
            [] outcome = "empty" ->
                 /\ CrawlAgain(k, crawlQueue, embedQueue)
                 /\ UNCHANGED linkLog
            [] outcome = "404" ->
                 /\ crawlWorkers' = [crawlWorkers EXCEPT ![k].pc = "deleteLink"]
                 /\ linkLog' = [linkLog EXCEPT ![w.link].notFound = "deleting"]
                 /\ UNCHANGED <<crawlQueue, embedQueue, activeCrawlWorkers>>
            [] OTHER ->
                 /\ CrawlAgain(k,
                      IF CrawlRetry(w.attempts)
                      THEN Append(crawlQueue,
                                  [link |-> w.link, attempts |-> w.attempts + 1])
                      ELSE crawlQueue,
                      embedQueue)
                 /\ UNCHANGED linkLog
  /\ UNCHANGED <<syncPc, linkTable, news, embedWorkers>>
  /\ UNCHANGED <<runVars, fnVars>>

\* deleteLink settles (lines 280-285): the row is deleted, or the error is
\* logged; either way the loop continues.
DeleteLinkDone(k) ==
  /\ syncPc = "running"
  /\ crawlWorkers[k].pc = "deleteLink"
  /\ \E deleted \in BOOLEAN :
       /\ linkTable' = IF deleted THEN linkTable \ {crawlWorkers[k].link}
                       ELSE linkTable
       /\ linkLog' = [linkLog EXCEPT ![crawlWorkers[k].link].notFound =
                        IF deleted THEN "deleted" ELSE "kept"]
  /\ CrawlAgain(k, crawlQueue, embedQueue)
  /\ UNCHANGED <<syncPc, news, embedWorkers>>
  /\ UNCHANGED <<runVars, fnVars>>

\* The embed worker goes round its loop with the queue as given.
EmbedAgain(k, eq) ==
  LET t == embedWorker(eq, activeCrawlWorkers)
  IN /\ embedWorkers' = [embedWorkers EXCEPT ![k] = t.w]
     /\ embedQueue' = t.queue
     /\ linkLog' = Taken(linkLog, t.w)

\* The catch block of lines 324-340.
EmbedFailed(k) ==
  LET w == embedWorkers[k]
  IN EmbedAgain(k, IF EmbedRetry(w.attempts)
                   THEN Append(embedQueue, [id |-> w.id, attempts |-> w.attempts + 1])
                   ELSE embedQueue)

\* `await sleep(500)` resumes (lines 310-311).
EmbedSleepDone(k) ==
  /\ syncPc = "running"
  /\ embedWorkers[k].pc = "sleep"
  /\ EmbedAgain(k, embedQueue)
  /\ UNCHANGED <<syncPc, linkTable, news, crawlQueue, activeCrawlWorkers,
                 crawlWorkers>>
  /\ UNCHANGED <<runVars, fnVars>>

\* upsertNews settles (line 318).
UpsertNewsDone(k) ==
  /\ syncPc = "running"
  /\ embedWorkers[k].pc = "upsertNews"
  /\ \/ /\ embedWorkers' = [embedWorkers EXCEPT ![k].pc = "generateEmbedding"]
        /\ news' = [news EXCEPT ![embedWorkers[k].id] =
                      IF @ = "embedded" THEN @ ELSE "saved"]
        /\ UNCHANGED <<embedQueue, linkLog>>
     \/ /\ EmbedFailed(k)
        /\ UNCHANGED news
  /\ UNCHANGED <<syncPc, linkTable, crawlQueue, activeCrawlWorkers, crawlWorkers>>
  /\ UNCHANGED <<runVars, fnVars>>

\* generateEmbedding settles (line 321).
GenerateEmbeddingDone(k) ==
  /\ syncPc = "running"
  /\ embedWorkers[k].pc = "generateEmbedding"
  /\ \/ /\ embedWorkers' = [embedWorkers EXCEPT ![k].pc = "upsertEmbedding"]
        /\ UNCHANGED <<embedQueue, linkLog>>
     \/ EmbedFailed(k)
  /\ UNCHANGED <<syncPc, linkTable, news, crawlQueue, activeCrawlWorkers,
                 crawlWorkers>>
  /\ UNCHANGED <<runVars, fnVars>>

\* upsertEmbedding settles (lines 322-323).
UpsertEmbeddingDone(k) ==
  /\ syncPc = "running"
  /\ embedWorkers[k].pc = "upsertEmbedding"
  /\ \/ /\ news' = [news EXCEPT ![embedWorkers[k].id] = "embedded"]
        /\ EmbedAgain(k, embedQueue)
     \/ /\ EmbedFailed(k)
        /\ UNCHANGED news
  /\ UNCHANGED <<syncPc, linkTable, crawlQueue, activeCrawlWorkers, crawlWorkers>>
  /\ UNCHANGED <<runVars, fnVars>>

\* Promise.all of line 353 resolves.
SyncFinished ==
  /\ syncPc = "running"
  /\ \A k \in DOMAIN crawlWorkers : crawlWorkers[k].pc = "done"
  /\ \A k \in DOMAIN embedWorkers : embedWorkers[k].pc = "done"
  /\ syncPc' = "done"
  /\ UNCHANGED <<linkTable, news, crawlQueue, embedQueue, activeCrawlWorkers,
                 crawlWorkers, embedWorkers, linkLog>>
  /\ UNCHANGED <<runVars, fnVars>>

InitSync ==
  /\ RunIdle /\ fnPc = "off" /\ fnIn = <<>> /\ fnOut = <<>>
  /\ syncPc = "start"
  /\ \E n \in 0..MaxLinks :
       /\ linkTable = 1..n
       /\ news = [id \in 1..n |-> "none"]
       /\ linkLog = [l \in 1..n |-> [crawls |-> 0, embeds |-> 0, notFound |-> "no"]]
  /\ crawlQueue = <<>>
  /\ embedQueue = <<>>
  /\ activeCrawlWorkers = 0
  /\ crawlWorkers = <<>>
  /\ embedWorkers = <<>>

NextSync ==
  \/ SyncStart
  \/ \E k \in DOMAIN crawlWorkers : CrawlSleepDone(k)
  \/ \E k \in DOMAIN crawlWorkers : ExtractDone(k)
  \/ \E k \in DOMAIN crawlWorkers : DeleteLinkDone(k)
  \/ \E k \in DOMAIN embedWorkers : EmbedSleepDone(k)
  \/ \E k \in DOMAIN embedWorkers : UpsertNewsDone(k)
  \/ \E k \in DOMAIN embedWorkers : GenerateEmbeddingDone(k)
  \/ \E k \in DOMAIN embedWorkers : UpsertEmbeddingDone(k)
  \/ SyncFinished

SpecSync == InitSync /\ [][NextSync]_vars

\* Tasks for a link waiting in the crawl queue or held by a crawl worker
\* that will crawl it.
CrawlPending(l) ==
  Cardinality({k \in DOMAIN crawlQueue : crawlQueue[k].link = l})
  + Cardinality({k \in DOMAIN crawlWorkers :
                   crawlWorkers[k].link = l /\ crawlWorkers[k].pc \in {"sleep", "extract"}})

\* Retries are bounded and the queues hold at most one task per link.
RetriesBounded ==
  /\ \A l \in DOMAIN linkLog :
       /\ linkLog[l].crawls <= MAX_CRAWL_RETRIES + 1
       /\ linkLog[l].embeds <= MAX_EMBED_RETRIES + 1
       /\ linkLog[l].notFound # "no" => CrawlPending(l) = 0
  /\ Len(crawlQueue) <= Cardinality(DOMAIN linkLog)
  /\ Len(embedQueue) <= Cardinality(DOMAIN linkLog)

\* C27 as stated: each link is crawled at most MAX_CRAWL_RETRIES + 1 times
\* and each embed task attempted at most MAX_EMBED_RETRIES + 1 times, the
\* queues never hold more tasks than there are links, and a link whose crawl
\* failed with 404 is never requeued and is no longer in the link table once
\* that failure has been handled.
C27_RetriesBoundedAnd404Deleted ==
  /\ RetriesBounded
  /\ \A l \in DOMAIN linkLog :
       linkLog[l].notFound \in {"deleted", "kept"} => l \notin linkTable

\* C27, amended: the same bounds, and a link whose crawl failed with 404 is
\* never requeued; one delete is issued for it, and it is out of the link
\* table exactly when that delete succeeded.
C27_RetriesBoundedAnd404DeleteTried ==
  /\ RetriesBounded
  /\ \A l \in DOMAIN linkLog :
       l \notin linkTable <=> linkLog[l].notFound = "deleted"

\* C27 witness: the run is over; one link got a 404 on its third crawl and
\* was deleted, and another gave an article on its third crawl whose embed
\* task failed three times.
C27_Witness ==
  /\ syncPc = "done"
  /\ \E l \in DOMAIN linkLog :
       /\ linkLog[l].crawls = MAX_CRAWL_RETRIES + 1
       /\ linkLog[l].notFound = "deleted"
  /\ \E l \in DOMAIN linkLog :
       /\ linkLog[l].crawls = MAX_CRAWL_RETRIES + 1
       /\ linkLog[l].embeds = MAX_EMBED_RETRIES + 1
       /\ news[l] # "embedded"

\* C30: when main completes the embed queue is empty: every article pushed
\* to it was taken by an embed worker.
C30_EmbedQueueDrained ==
  syncPc = "done" => embedQueue = <<>>

====
